---- MODULE Spec2Model ----
(***************************************************************************)
(* Model of brave_search.py: the BraveSearch toolkit (constructor,          *)
(* search_brave, run) together with the HTTP transport it calls.            *)
(*                                                                          *)
(* Python values are modelled as follows.                                   *)
(*   - Optional[T]: <<>> is None, <<v>> is the value v.                     *)
(*   - a str returned to the caller: a sequence of text tokens whose        *)
(*     concatenation is the string.                                         *)
(*   - a decoded JSON value: a tagged record                                *)
(*       [t |-> "null"], [t |-> "str", s |-> text],                         *)
(*       [t |-> "list", l |-> sequence of values],                          *)
(*       [t |-> "obj", o |-> sequence of <<key, value>> pairs]              *)
(*     (a dict keeps insertion order, hence a sequence of pairs).           *)
(***************************************************************************)
EXTENDS Integers, Sequences, FiniteSets, TLC

VARIABLES
    environ,        \* value of BRAVE_SEARCH_API_KEY in the process environment
    ctor_api_key,   \* the api_key argument the constructor was called with
    self,           \* the BraveSearch instance's attributes
    call,           \* <<>> or <<record of the most recent public call>>
    nreq,           \* number of HTTP requests the session has issued so far
    repeated,       \* the most recent call had the arguments and the upstream
                    \* response of the call before it
    calls_left      \* calls the driver still makes on this client

vars == <<environ, ctor_api_key, self, call, nreq, repeated, calls_left>>

\* ------------------------------------------------------------------ bounds
MaxResults == 2
MaxCalls == 2

\* ---------------------------------------------------------- Python helpers
None == <<>>
Some(v) == <<v>>

\* truth value of an Optional[str]: None and "" are falsy
TruthyStr(x) == x # None /\ x[1] # ""

\* truth value of an Optional[int]: None and 0 are falsy
TruthyInt(x) == x # None /\ x[1] # 0

\* ------------------------------------------------------------ JSON values
JNull == [t |-> "null"]
JStr(s) == [t |-> "str", s |-> s]
JList(l) == [t |-> "list", l |-> l]
JObj(o) == [t |-> "obj", o |-> o]

\* truth value of a decoded JSON value
Truthy(v) ==
    CASE v.t = "null" -> FALSE
      [] v.t = "str" -> v.s # ""
      [] v.t = "list" -> v.l # <<>>
      [] v.t = "obj" -> v.o # <<>>

\* key in d, for a dict d
HasKey(d, k) == \E i \in 1..Len(d.o) : d.o[i][1] = k

\* d.get(k, default), for a dict d
Get(d, k, default) ==
    IF HasKey(d, k)
    THEN d.o[CHOOSE i \in 1..Len(d.o) : d.o[i][1] = k][2]
    ELSE default

\* text of the AttributeError raised by v.get for a v that is no dict
NoGetMsg(v) ==
    CASE v.t = "null" -> "'NoneType' object has no attribute 'get'"
      [] v.t = "str" -> "'str' object has no attribute 'get'"
      [] v.t = "list" -> "'list' object has no attribute 'get'"

\* newline followed by the indentation of nesting depth d (indent=4)
NL(d) == <<"\n">> \o [i \in 1..d |-> "    "]

RECURSIVE Dumps(_, _)
RECURSIVE DumpItems(_, _)
RECURSIVE DumpPairs(_, _)

\* the items of a non-empty list at depth d, separated by "," and a newline
DumpItems(l, d) ==
    IF Len(l) = 1
    THEN Dumps(l[1], d)
    ELSE Dumps(l[1], d) \o <<",">> \o NL(d) \o DumpItems(Tail(l), d)

\* the members of a non-empty dict at depth d
DumpPairs(o, d) ==
    LET head == <<"\"", o[1][1], "\"", ": ">> \o Dumps(o[1][2], d)
    IN  IF Len(o) = 1
        THEN head
        ELSE head \o <<",">> \o NL(d) \o DumpPairs(Tail(o), d)

\* json.dumps(v, indent=4) for a value nested d levels deep
Dumps(v, d) ==
    CASE v.t = "null" -> <<"null">>
      [] v.t = "str" -> <<"\"", v.s, "\"">>
      [] v.t = "list" ->
            IF v.l = <<>>
            THEN <<"[", "]">>
            ELSE <<"[">> \o NL(d + 1) \o DumpItems(v.l, d + 1) \o NL(d) \o <<"]">>
      [] v.t = "obj" ->
            IF v.o = <<>>
            THEN <<"{", "}">>
            ELSE <<"{">> \o NL(d + 1) \o DumpPairs(v.o, d + 1) \o NL(d) \o <<"}">>

\* ------------------------------------------------------------- transport
\* What the HTTP transport does with one request: session.get either raises
\* (raises # None carries the exception's text) or returns a response with a
\* status code and a body; body = None is a body that is not valid JSON.
ConnError == [raises |-> Some(<<"Connection refused">>), status |-> 0, body |-> None]
Response(status, body) == [raises |-> None, status |-> status, body |-> body]

\* response.raise_for_status(): raises HTTPError for a 4xx or 5xx status only
RaiseForStatus(status) ==
    IF status >= 400 /\ status < 500
    THEN Some(<<ToString(status), " Client Error">>)
    ELSE IF status >= 500 /\ status < 600
    THEN Some(<<ToString(status), " Server Error">>)
    ELSE None

\* ----------------------------------------------------------- constructor
BASE_URL == "https://api.search.brave.com/res/v1/web/search"

\* BraveSearch.__init__: a holds the constructor's arguments, env the value
\* of BRAVE_SEARCH_API_KEY (None when the variable is not set)
BraveSearch(a, env) ==
    LET api_key == IF TruthyStr(a.api_key) THEN a.api_key ELSE env
    IN  [ api_key |-> api_key,
          show_results |-> a.show_results,
          country |-> a.country,
          search_lang |-> a.search_lang,
          ui_lang |-> a.ui_lang,
          safesearch |-> a.safesearch,
          text_decorations |-> a.text_decorations,
          spellcheck |-> a.spellcheck,
          num_results |-> a.num_results,
          freshness |-> a.freshness,
          result_filter |-> a.result_filter,
          goggles_id |-> a.goggles_id,
          units |-> a.units,
          extra_snippets |-> a.extra_snippets,
          summary |-> a.summary,
          session_token |-> api_key ]

\* ---------------------------------------------------------- search_brave
\* self.num_results or num_results
Count(s, num_results) ==
    IF TruthyInt(s.num_results) THEN s.num_results ELSE Some(num_results)

\* the search_kwargs dict as first built, in insertion order
SearchKwargs(s, query, num_results) ==
    << <<"q", Some(query)>>,
       <<"country", Some(s.country)>>,
       <<"search_lang", Some(s.search_lang)>>,
       <<"ui_lang", Some(s.ui_lang)>>,
       <<"safesearch", Some(s.safesearch)>>,
       <<"text_decorations", Some(s.text_decorations)>>,
       <<"spellcheck", Some(s.spellcheck)>>,
       <<"count", Count(s, num_results)>>,
       <<"freshness", s.freshness>>,
       <<"result_filter", s.result_filter>>,
       <<"goggles_id", s.goggles_id>>,
       <<"units", s.units>>,
       <<"extra_snippets", s.extra_snippets>>,
       <<"summary", Some(s.summary)>> >>

\* variant: the comprehension written "if v", which also drops a False flag
CleanKwargsTruthy(kwargs) ==
    SelectSeq(kwargs,
              LAMBDA p : /\ p[2] # None
                         /\ ~(/\ p[1] \in {"text_decorations", "spellcheck",
                                            "extra_snippets", "summary"}
                              /\ p[2] = Some(FALSE)))

\* {k: v for k, v in search_kwargs.items() if v is not None}
CleanKwargs(kwargs) == SelectSeq(kwargs, LAMBDA p : p[2] # None)

\* self.session.get(self.BASE_URL, params=search_kwargs): the request sent
GetRequest(s, params) ==
    [method |-> "GET", url |-> BASE_URL, params |-> params,
     token |-> s.session_token]

\* outcome of a step of the try block: a value, or the text of an exception
Ok(v) == [ok |-> TRUE, val |-> v, msg |-> <<>>]
Raise(m) == [ok |-> FALSE, val |-> <<>>, msg |-> m]

\* the items a for loop draws from v: a list's elements, a dict's keys, a
\* string's characters; None is not iterable
Iterate(v) ==
    CASE v.t = "list" -> Ok(v.l)
      [] v.t = "obj" -> Ok([i \in 1..Len(v.o) |-> JStr(v.o[i][1])])
      [] v.t = "str" -> Ok(IF v.s = "" THEN <<>> ELSE <<JStr(v.s)>>)
      [] v.t = "null" -> Raise(<<"'NoneType' object is not iterable">>)

\* variant: the entry is passed through whole instead of projected
ResultDictWhole(result) == result

\* the result_dict built from one entry of web.results
ResultDict(result) ==
    JObj(<< <<"url", Get(result, "url", JNull)>>,
            <<"title", Get(result, "title", JNull)>>,
            <<"description", Get(result, "description", JNull)>> >>
         \o (IF Truthy(Get(result, "extra_snippets", JNull))
             THEN << <<"extra_snippets", Get(result, "extra_snippets", JNull)>> >>
             ELSE <<>>))

\* the loop over web.results: the first entry that is no dict raises
ParseWeb(brave_results) ==
    IF brave_results.t # "obj" THEN Raise(<<NoGetMsg(brave_results)>>) ELSE
    LET web == Get(brave_results, "web", JObj(<<>>)) IN
    IF web.t # "obj" THEN Raise(<<NoGetMsg(web)>>) ELSE
    LET it == Iterate(Get(web, "results", JList(<<>>))) IN
    IF ~it.ok THEN it ELSE
    LET bad == {i \in 1..Len(it.val) : it.val[i].t # "obj"} IN
    IF bad # {}
    THEN Raise(<<NoGetMsg(it.val[CHOOSE i \in bad : \A j \in bad : i <= j])>>)
    ELSE Ok([i \in 1..Len(it.val) |-> ResultDict(it.val[i])])

\* variant: enrichments and entities_infos tested by truth value, like
\* extra_snippets, instead of by key
SummaryDictTruthy(summarizer) ==
    JObj(<< <<"type", Get(summarizer, "type", JNull)>>,
            <<"status", Get(summarizer, "status", JNull)>>,
            <<"title", Get(summarizer, "title", JNull)>>,
            <<"summary", Get(summarizer, "summary", JList(<<>>))>>,
            <<"followups", Get(summarizer, "followups", JList(<<>>))>> >>
         \o (IF Truthy(Get(summarizer, "enrichments", JNull))
             THEN << <<"enrichments", Get(summarizer, "enrichments", JNull)>> >>
             ELSE <<>>)
         \o (IF Truthy(Get(summarizer, "entities_infos", JNull))
             THEN << <<"entities_infos", Get(summarizer, "entities_infos", JNull)>> >>
             ELSE <<>>))

\* the summary_dict built from a summarizer dict
SummaryDict(summarizer) ==
    JObj(<< <<"type", Get(summarizer, "type", JNull)>>,
            <<"status", Get(summarizer, "status", JNull)>>,
            <<"title", Get(summarizer, "title", JNull)>>,
            <<"summary", Get(summarizer, "summary", JList(<<>>))>>,
            <<"followups", Get(summarizer, "followups", JList(<<>>))>> >>
         \o (IF HasKey(summarizer, "enrichments")
             THEN << <<"enrichments", Get(summarizer, "enrichments", JNull)>> >>
             ELSE <<>>)
         \o (IF HasKey(summarizer, "entities_infos")
             THEN << <<"entities_infos", Get(summarizer, "entities_infos", JNull)>> >>
             ELSE <<>>))

\* the summarizer section: what is appended to brave_results_parsed
ParseSummarizer(brave_results) ==
    LET summarizer == Get(brave_results, "summarizer", JObj(<<>>)) IN
    IF ~Truthy(summarizer) THEN Ok(<<>>)
    ELSE IF summarizer.t # "obj" THEN Raise(<<NoGetMsg(summarizer)>>)
    ELSE Ok(<< JObj(<< <<"summarizer", SummaryDict(summarizer)>> >>) >>)

\* the try block after the request is built: brave_results_parsed, or the
\* text of the first exception raised
TryBlock(up) ==
    IF up.raises # None THEN Raise(up.raises[1])
    ELSE IF RaiseForStatus(up.status) # None THEN Raise(RaiseForStatus(up.status)[1])
    ELSE IF up.body = None
    THEN Raise(<<"Expecting value: line 1 column 1 (char 0)">>)
    ELSE LET web == ParseWeb(up.body[1]) IN
         IF ~web.ok THEN web
         ELSE LET sm == ParseSummarizer(up.body[1]) IN
              IF ~sm.ok THEN sm ELSE Ok(web.val \o sm.val)

\* did the call reach response.json()
ReachedJson(up) == up.raises = None /\ RaiseForStatus(up.status) = None

\* variant: the guard written "if self.api_key is None"
MissingKeyIsNone(s) == s.api_key = None

\* not self.api_key
MissingKey(s) == ~TruthyStr(s.api_key)

\* variant: the handler catches transport errors only, so an AttributeError
\* or TypeError of the parsing code leaves the call
FinishNarrow(r) ==
    IF r.ok
    THEN [ret |-> Some(Dumps(JList(r.val), 0)), raised |-> None]
    ELSE IF r.msg[1] \in {"'NoneType' object has no attribute 'get'",
                          "'str' object has no attribute 'get'",
                          "'list' object has no attribute 'get'",
                          "'NoneType' object is not iterable"}
    THEN [ret |-> None, raised |-> Some(r.msg)]
    ELSE [ret |-> Some(<<"Error: ">> \o r.msg), raised |-> None]

\* how the call ends for the outcome r of the try block: the string returned
\* (None when an exception leaves the call) and the exception that leaves it
\* (None when the call returns). except Exception catches every exception.
Finish(r) ==
    IF r.ok
    THEN [ret |-> Some(Dumps(JList(r.val), 0)), raised |-> None]
    ELSE [ret |-> Some(<<"Error: ">> \o r.msg), raised |-> None]

\* the HTTP requests one call sends: a single session.get
Requests(s, query, num_results) ==
    <<GetRequest(s, CleanKwargs(SearchKwargs(s, query, num_results)))>>

\* variant: the call stores its count on the instance
SelfAfterStoringCount(s, query, num_results) ==
    [s EXCEPT !.num_results = Some(num_results)]

\* the instance's attributes after a call: no statement assigns to self
SelfAfter(s, query, num_results) == s

\* BraveSearch.search_brave: the string returned or the exception raised,
\* the requests sent, whether the body was handed to the JSON decoder, and
\* the instance afterwards
search_brave(s, query, num_results, up) ==
    IF MissingKey(s)
    THEN [ret |-> Some(<<"Please set the BRAVE_SEARCH_API_KEY">>),
          raised |-> None, sent |-> <<>>, decoded |-> FALSE, self |-> s]
    ELSE LET f == Finish(TryBlock(up))
         IN  [ret |-> f.ret, raised |-> f.raised,
              sent |-> Requests(s, query, num_results),
              decoded |-> ReachedJson(up),
              self |-> SelfAfter(s, query, num_results)]

\* variant: run forwards the query only, leaving num_results at its default
runDefaultCount(s, query, num_results, up) == search_brave(s, query, 10, up)

\* BraveSearch.run
run(s, query, num_results, up) == search_brave(s, query, num_results, up)

\* ------------------------------------------------------- inputs explored
\* entries of web.results as the upstream API sends them
Entry1 ==
    JObj(<< <<"title", JStr("Paris")>>,
            <<"url", JStr("https://x.com")>>,
            <<"description", JStr("Capital of France")>> >>)
Entry2 ==
    JObj(<< <<"url", JStr("https://y.org")>>,
            <<"title", JStr("Lyon")>>,
            <<"description", JStr("City")>>,
            <<"age", JStr("1d")>>,
            <<"extra_snippets", JList(<<JStr("s1"), JStr("s2")>>)>> >>)
Entry3 ==
    JObj(<< <<"url", JStr("https://z.net")>>,
            <<"title", JStr("Nice")>>,
            <<"extra_snippets", JList(<<>>)>> >>)
Entries == {Entry1, Entry2, Entry3}

\* web.results lists of up to MaxResults distinct entries, in every order
ResultLists ==
    UNION { {l \in [1..n -> Entries] :
                \A i, j \in 1..n : l[i] = l[j] => i = j} : n \in 0..MaxResults }
\* the lists that come with a summarizer section
SummLists == {<<>>, <<Entry2, Entry1>>}

\* summarizer sections
SummEmpty == JObj(<<>>)
SummTypeOnly == JObj(<< <<"type", JStr("summarizer")>> >>)
SummPlain ==
    JObj(<< <<"type", JStr("summarizer")>>,
            <<"status", JStr("complete")>>,
            <<"title", JStr("Paris")>>,
            <<"summary", JList(<<JStr("f1"), JStr("f2")>>)>>,
            <<"followups", JList(<<JStr("q1")>>)>> >>)
SummRich ==
    JObj(<< <<"status", JStr("complete")>>,
            <<"key", JStr("k")>>,
            <<"summary", JList(<<JStr("f1")>>)>>,
            <<"enrichments", JObj(<< <<"raw", JStr("r")>> >>)>>,
            <<"entities_infos", JNull>> >>)
Summarizers == {SummEmpty, SummTypeOnly, SummPlain, SummRich, JNull, JStr("x")}

\* response bodies
WebBody(l) ==
    JObj(<< <<"type", JStr("search")>>,
            <<"web", JObj(<< <<"type", JStr("search")>>,
                             <<"results", JList(l)>> >>)>> >>)
SummBody(l, sm) ==
    JObj(<< <<"summarizer", sm>>,
            <<"web", JObj(<< <<"results", JList(l)>> >>)>> >>)
OddBodies ==
    { JList(<<>>), JNull, JStr("ok"), JObj(<<>>),
      JObj(<< <<"web", JNull>> >>),
      JObj(<< <<"web", JObj(<<>>)>> >>),
      JObj(<< <<"summarizer", SummPlain>> >>),
      JObj(<< <<"web", JObj(<< <<"results", JNull>> >>)>> >>),
      JObj(<< <<"web", JObj(<< <<"results", JStr("")>> >>)>> >>),
      JObj(<< <<"web", JObj(<< <<"results", JObj(<< <<"a", JNull>> >>)>> >>)>> >>),
      WebBody(<<JNull>>), WebBody(<<Entry1, JStr("x")>>) }
Bodies ==
    {WebBody(l) : l \in ResultLists}
    \cup {SummBody(l, sm) : l \in SummLists, sm \in Summarizers}
    \cup OddBodies

\* behaviours of the transport
Upstream ==
    {ConnError}
    \cup {Response(200, Some(b)) : b \in Bodies}
    \cup {Response(st, b) : st \in {200, 300, 404, 500},
                            b \in {None, Some(WebBody(<<Entry1>>))}}

Queries == {"capital of France"}
NumResults == {5, 10}

OptStr(v) == {None, Some(v)}

\* constructor arguments; the fields left at one value keep the defaults of
\* the signature
CtorArgs ==
    [ api_key : {None, Some("key")},
      country : {"us"}, search_lang : {"en"}, ui_lang : {"en-US"},
      safesearch : {"moderate"},
      text_decorations : {TRUE}, spellcheck : {TRUE},
      num_results : {None, Some(0), Some(3)},
      freshness : OptStr("pd"), result_filter : OptStr("web"),
      goggles_id : OptStr("g1"), units : OptStr("metric"),
      extra_snippets : {None, Some(FALSE), Some(TRUE)},
      summary : {TRUE}, show_results : {FALSE} ]

\* the arguments of BraveSearch(): every default
DefaultArgs ==
    [ api_key |-> None, country |-> "us", search_lang |-> "en",
      ui_lang |-> "en-US", safesearch |-> "moderate",
      text_decorations |-> TRUE, spellcheck |-> TRUE, num_results |-> None,
      freshness |-> None, result_filter |-> None, goggles_id |-> None,
      units |-> None, extra_snippets |-> None, summary |-> TRUE,
      show_results |-> FALSE ]

Environs == {None, Some(""), Some("envkey")}

\* ---------------------------------------------------------------- machine
\* one client, constructed from any arguments, called once
Init ==
    /\ environ \in Environs
    /\ ctor_api_key \in {None, Some("key")}
    /\ ctor_api_key # None => environ = Some("envkey")
    /\ \E a \in CtorArgs :
          /\ a.api_key = ctor_api_key
          /\ self = BraveSearch(a, environ)
    /\ call = <<>>
    /\ nreq = 0
    /\ repeated = FALSE
    /\ calls_left = 1

\* the client of the module's main block, BraveSearch(), called once
InitMain ==
    /\ environ = Some("envkey")
    /\ ctor_api_key = None
    /\ \E sr \in BOOLEAN :
          self = BraveSearch([DefaultArgs EXCEPT !.show_results = sr], environ)
    /\ call = <<>>
    /\ nreq = 0
    /\ repeated = FALSE
    /\ calls_left = 1

\* one client, reused for MaxCalls calls
InitReuse ==
    /\ environ \in {None, Some("envkey")}
    /\ ctor_api_key = None
    /\ self = BraveSearch(DefaultArgs, environ)
    /\ call = <<>>
    /\ nreq = 0
    /\ repeated = FALSE
    /\ calls_left = MaxCalls

\* what an observer of one call sees
Record(op, query, num_results, up, r) ==
    [op |-> op, query |-> query, num_results |-> num_results, up |-> up,
     ret |-> r.ret, raised |-> r.raised, sent |-> r.sent,
     decoded |-> r.decoded]

SameInputs(c, op, query, num_results, up) ==
    /\ c # <<>>
    /\ c[1].op = op /\ c[1].query = query
    /\ c[1].num_results = num_results /\ c[1].up = up

\* a caller invokes search_brave(query, num_results); the transport does up
SearchBraveCall(query, num_results, up) ==
    /\ calls_left > 0
    /\ LET r == search_brave(self, query, num_results, up) IN
          /\ call' = <<Record("search_brave", query, num_results, up, r)>>
          /\ self' = r.self
          /\ nreq' = nreq + Len(r.sent)
    /\ repeated' = SameInputs(call, "search_brave", query, num_results, up)
    /\ calls_left' = calls_left - 1
    /\ UNCHANGED <<environ, ctor_api_key>>

\* a caller invokes run(query, num_results); the transport does up
RunCall(query, num_results, up) ==
    /\ calls_left > 0
    /\ LET r == run(self, query, num_results, up) IN
          /\ call' = <<Record("run", query, num_results, up, r)>>
          /\ self' = r.self
          /\ nreq' = nreq + Len(r.sent)
    /\ repeated' = SameInputs(call, "run", query, num_results, up)
    /\ calls_left' = calls_left - 1
    /\ UNCHANGED <<environ, ctor_api_key>>

Next ==
    \/ \E q \in Queries, n \in NumResults, up \in Upstream :
          SearchBraveCall(q, n, up)
    \/ \E q \in Queries, n \in NumResults, up \in Upstream :
          RunCall(q, n, up)

Spec == Init /\ [][Next]_vars
SpecMain == InitMain /\ [][Next]_vars
SpecReuse == InitReuse /\ [][Next]_vars

TypeOK == calls_left \in 0..MaxCalls

\* ------------------------------------------------------- reading a result
\* json.loads of a returned string, used to state what the string holds.
\* Each operator returns [v |-> value, n |-> index of the next token].
RECURSIVE SkipWs(_, _)
SkipWs(s, i) ==
    IF i <= Len(s) /\ s[i] \in {"\n", "    "} THEN SkipWs(s, i + 1) ELSE i

RECURSIVE LoadValue(_, _)
RECURSIVE LoadItems(_, _, _)
RECURSIVE LoadPairs(_, _, _)

LoadItems(s, i, acc) ==
    LET r == LoadValue(s, i)
        k == SkipWs(s, r.n)
    IN  IF s[k] = ","
        THEN LoadItems(s, k + 1, Append(acc, r.v))
        ELSE [v |-> JList(Append(acc, r.v)), n |-> k + 1]

LoadPairs(s, i, acc) ==
    LET j == SkipWs(s, i)
        r == LoadValue(s, j + 4)
        k == SkipWs(s, r.n)
    IN  IF s[k] = ","
        THEN LoadPairs(s, k + 1, Append(acc, <<s[j + 1], r.v>>))
        ELSE [v |-> JObj(Append(acc, <<s[j + 1], r.v>>)), n |-> k + 1]

LoadValue(s, i) ==
    LET j == SkipWs(s, i) IN
    CASE s[j] = "null" -> [v |-> JNull, n |-> j + 1]
      [] s[j] = "\"" -> [v |-> JStr(s[j + 1]), n |-> j + 3]
      [] s[j] = "[" ->
            IF s[SkipWs(s, j + 1)] = "]"
            THEN [v |-> JList(<<>>), n |-> SkipWs(s, j + 1) + 1]
            ELSE LoadItems(s, j + 1, <<>>)
      [] s[j] = "{" ->
            IF s[SkipWs(s, j + 1)] = "}"
            THEN [v |-> JObj(<<>>), n |-> SkipWs(s, j + 1) + 1]
            ELSE LoadPairs(s, j + 1, <<>>)

\* the string is the text of a JSON array
IsJsonArray(s) == Len(s) >= 2 /\ s[1] = "[" /\ LoadValue(s, 1).n = Len(s) + 1
Loads(s) == LoadValue(s, 1).v

Keys(d) == {d.o[i][1] : i \in 1..Len(d.o)}

\* ------------------------------------------------ vocabulary of the claims
Called == call # <<>>
Last == call[1]
HasKeyConfigured == TruthyStr(self.api_key)
Returned == Called /\ Last.ret # None
StartsWith(s, tok) == Len(s) >= 1 /\ s[1] = tok
Sentinel == <<"Please set the BRAVE_SEARCH_API_KEY">>

\* the transport failed, the status is an HTTP error, or the body is no JSON
TransportFailed(up) == up.raises # None
ErrorStatus(up) == up.raises = None /\ up.status \in 400..599
NotJson(up) == up.raises = None /\ up.body = None
Success(up) == up.raises = None /\ up.status \in 200..299 /\ up.body # None

\* the body has the shape the API documents: an object whose web, when
\* present, is an object whose results, when present, is a list of objects
IsObj(v) == v.t = "obj"
WellShaped(b) ==
    /\ IsObj(b)
    /\ HasKey(b, "web") =>
          /\ IsObj(Get(b, "web", JNull))
          /\ HasKey(Get(b, "web", JNull), "results") =>
                LET rs == Get(Get(b, "web", JNull), "results", JNull)
                IN  rs.t = "list" /\ \A i \in 1..Len(rs.l) : IsObj(rs.l[i])
    /\ HasKey(b, "summarizer") =>
          Get(b, "summarizer", JNull).t \in {"obj", "null"}

\* the web.results entries of a well-shaped body (none when missing)
SourceEntries(b) ==
    IF HasKey(b, "web") /\ HasKey(Get(b, "web", JNull), "results")
    THEN Get(Get(b, "web", JNull), "results", JNull).l
    ELSE <<>>

\* the summarizer of a well-shaped body is a non-empty object
HasSummarizer(b) ==
    /\ HasKey(b, "summarizer")
    /\ IsObj(Get(b, "summarizer", JNull))
    /\ Get(b, "summarizer", JNull).o # <<>>

\* a call on a client with a key got a successful, well-shaped response
GoodCall ==
    /\ Called /\ HasKeyConfigured
    /\ Success(Last.up) /\ WellShaped(Last.up.body[1])

\* the parameters of the request the last call sent
SentParams == Last.sent[1].params
ParamKeys(ps) == {ps[i][1] : i \in 1..Len(ps)}
Param(ps, k) ==
    IF k \in ParamKeys(ps)
    THEN ps[CHOOSE i \in 1..Len(ps) : ps[i][1] = k][2]
    ELSE None

\* ------------------------------------------------------------------ claims

\* C1: on a client with an API key every call returns a string and lets no
\* exception out, whatever the transport does; when the transport raises,
\* the status is an HTTP error, the body is no JSON or the body's shape makes
\* the parsing code fail, the string begins with "Error: "; otherwise it is
\* the text of a JSON array.
C1_AlwaysReturnsString ==
    (Called /\ HasKeyConfigured) =>
        /\ Last.raised = None
        /\ Last.ret # None
        /\ StartsWith(Last.ret[1], "Error: ") \/ StartsWith(Last.ret[1], "[")
        /\ ( \/ TransportFailed(Last.up)
             \/ ErrorStatus(Last.up)
             \/ NotJson(Last.up)
             \/ /\ Last.up.raises = None /\ Last.up.body # None
                /\ \/ ~IsObj(Last.up.body[1])
                   \/ /\ HasKey(Last.up.body[1], "web")
                      /\ ~IsObj(Get(Last.up.body[1], "web", JNull)) )
           => StartsWith(Last.ret[1], "Error: ")
        /\ GoodCall => StartsWith(Last.ret[1], "[")

C1_Witness ==
    /\ Called /\ HasKeyConfigured /\ Returned
    /\ Last.up.raises = None /\ Last.up.body # None
    /\ ~IsObj(Last.up.body[1])
    /\ StartsWith(Last.ret[1], "Error: ")

\* C2: a client built with no api_key argument and no BRAVE_SEARCH_API_KEY in
\* the environment answers every call with the missing-credential sentinel
\* and never sends an HTTP request.
C2_MissingKeySentinel ==
    (~TruthyStr(ctor_api_key) /\ ~TruthyStr(environ)) =>
        /\ nreq = 0
        /\ Called =>
              /\ Last.ret = Some(Sentinel)
              /\ Last.raised = None
              /\ Last.sent = <<>>

C2_Witness ==
    /\ ctor_api_key = None /\ environ = Some("")
    /\ Called /\ Last.ret = Some(Sentinel) /\ nreq = 0

\* C3: the parameters of the outgoing request hold no null value; an
\* optional configuration field that is None has no key; every field that is
\* set has its key with the configured value, a False flag included. (The
\* key count is computed from num_results and the call's argument: see C4.)
OptionalFields ==
    {"freshness", "result_filter", "goggles_id", "units", "extra_snippets"}
RequiredFields ==
    {"country", "search_lang", "ui_lang", "safesearch", "text_decorations",
     "spellcheck", "summary"}

C3_UnsetFieldsOmitted ==
    (Called /\ Last.sent # <<>>) =>
        /\ \A i \in 1..Len(SentParams) : SentParams[i][2] # None
        /\ \A i, j \in 1..Len(SentParams) :
              SentParams[i][1] = SentParams[j][1] => i = j
        /\ \A f \in OptionalFields :
              /\ self[f] = None => f \notin ParamKeys(SentParams)
              /\ self[f] # None =>
                    f \in ParamKeys(SentParams) /\ Param(SentParams, f) = self[f]
        /\ \A f \in RequiredFields : Param(SentParams, f) = Some(self[f])
        /\ Param(SentParams, "q") = Some(Last.query)
        /\ ParamKeys(SentParams) \subseteq
              OptionalFields \cup RequiredFields \cup {"q", "count"}

C3_Witness ==
    /\ Called /\ Last.sent # <<>>
    /\ self.extra_snippets = Some(FALSE)
    /\ Param(SentParams, "extra_snippets") = Some(FALSE)
    /\ self.freshness = None /\ "freshness" \notin ParamKeys(SentParams)
    /\ self.units # None /\ "units" \in ParamKeys(SentParams)

\* C4: count is the client-level num_results whenever one is configured,
\* whatever integer it is, and the call's num_results argument only when
\* none is configured.
C4_CountIsConfiguredValue ==
    (Called /\ Last.sent # <<>>) =>
        /\ self.num_results # None =>
              Param(SentParams, "count") = self.num_results
        /\ self.num_results = None =>
              Param(SentParams, "count") = Some(Last.num_results)

\* C9: run returns the string search_brave returns for the same arguments
\* and upstream behaviour, and sends the same request.
C9_RunDelegates ==
    (Called /\ Last.op = "run") =>
        LET r == search_brave(self, Last.query, Last.num_results, Last.up)
        IN  /\ Last.ret = r.ret
            /\ Last.raised = r.raised
            /\ Last.sent = r.sent

C9_Witness ==
    /\ Called /\ Last.op = "run" /\ HasKeyConfigured
    /\ self.num_results = None /\ Last.num_results = 5
    /\ Param(SentParams, "count") = Some(5)
    /\ Returned /\ StartsWith(Last.ret[1], "[")

\* C10: a call on a client with a key sends exactly one GET to the search
\* endpoint; after a connection error or a status that is not a success the
\* body is not decoded and the string returned is an "Error: " string.
C10_OneRequestNoParseOnFailure ==
    (Called /\ HasKeyConfigured) =>
        /\ Len(Last.sent) = 1
        /\ Last.sent[1].method = "GET" /\ Last.sent[1].url = BASE_URL
        /\ (TransportFailed(Last.up) \/ Last.up.status \notin 200..299) =>
              /\ ~Last.decoded
              /\ Returned /\ StartsWith(Last.ret[1], "Error: ")

\* the part of C10 the code keeps: one GET per call, and after a connection
\* error or a 4xx/5xx status no decoding and an "Error: " string
OneRequestNoParseOnError ==
    (Called /\ HasKeyConfigured) =>
        /\ Len(Last.sent) = 1
        /\ nreq = 1
        /\ Last.sent[1].method = "GET" /\ Last.sent[1].url = BASE_URL
        /\ (TransportFailed(Last.up) \/ ErrorStatus(Last.up)) =>
              /\ ~Last.decoded
              /\ Returned /\ StartsWith(Last.ret[1], "Error: ")

\* the array a good call returned, and what the upstream sent
Out == Loads(Last.ret[1]).l
Src == SourceEntries(Last.up.body[1])
SrcSummarizer == Get(Last.up.body[1], "summarizer", JNull)
WebFields == {"url", "title", "description"}

\* output object o carries the url, title and description of entry e (null
\* for a field e lacks) and no key outside the four allowed
Projects(o, e) ==
    /\ IsObj(o)
    /\ Keys(o) \subseteq WebFields \cup {"extra_snippets"}
    /\ \A f \in WebFields : HasKey(o, f) /\ Get(o, f, JNull) = Get(e, f, JNull)

\* C5: for a successful response with N web.results entries (none when web
\* or results is missing) and no summarizer, the string returned is a JSON
\* array of exactly N objects in upstream order, object i carrying the url,
\* title and description of entry i and no key besides these and
\* extra_snippets.
C5_WebResultsProjected ==
    (GoodCall /\ ~HasSummarizer(Last.up.body[1])) =>
        /\ Returned /\ IsJsonArray(Last.ret[1])
        /\ Len(Out) = Len(Src)
        /\ \A i \in 1..Len(Src) : Projects(Out[i], Src[i])

C5_Witness ==
    /\ GoodCall /\ ~HasKey(Last.up.body[1], "summarizer")
    /\ Len(Src) = 2 /\ Src[1] = Entry2 /\ Src[2] = Entry1
    /\ Returned /\ IsJsonArray(Last.ret[1])
    /\ Len(Out) = 2
    /\ Get(Out[1], "title", JNull) = JStr("Lyon")
    /\ Get(Out[2], "title", JNull) = JStr("Paris")

\* C6: an output object has the key extra_snippets exactly when its source
\* entry provided an extra_snippets list, of any length, and the value is
\* then the source list.
C6_ExtraSnippetsIffProvided ==
    (GoodCall /\ Returned /\ IsJsonArray(Last.ret[1])) =>
        \A i \in 1..Len(Src) :
            /\ i <= Len(Out)
            /\ HasKey(Out[i], "extra_snippets") <=>
                  /\ HasKey(Src[i], "extra_snippets")
                  /\ Get(Src[i], "extra_snippets", JNull).t = "list"
            /\ HasKey(Out[i], "extra_snippets") =>
                  Get(Out[i], "extra_snippets", JNull)
                      = Get(Src[i], "extra_snippets", JNull)

\* the summarizer element, when there is one, is the last of the array and
\* follows the N web result objects; without a summarizer nothing is added
SummarizerPlaced ==
    /\ Returned /\ IsJsonArray(Last.ret[1])
    /\ \A i \in 1..Len(Src) : i <= Len(Out) /\ Projects(Out[i], Src[i])
    /\ IF HasSummarizer(Last.up.body[1])
       THEN /\ Len(Out) = Len(Src) + 1
            /\ IsObj(Out[Len(Out)])
            /\ Keys(Out[Len(Out)]) = {"summarizer"}
            /\ IsObj(Get(Out[Len(Out)], "summarizer", JNull))
       ELSE Len(Out) = Len(Src)
Inner == Get(Out[Len(Out)], "summarizer", JNull)
AlwaysFields == {"type", "status", "title", "summary", "followups"}
OptionalSummFields == {"enrichments", "entities_infos"}

\* C7 as stated: each of the seven summarizer fields appears in the output
\* only when it is present upstream.
C7_OnlySourceFields ==
    GoodCall =>
        /\ SummarizerPlaced
        /\ HasSummarizer(Last.up.body[1]) =>
              /\ Keys(Inner) \subseteq AlwaysFields \cup OptionalSummFields
              /\ \A f \in AlwaysFields \cup OptionalSummFields :
                    /\ HasKey(Inner, f) <=> HasKey(SrcSummarizer, f)
                    /\ HasKey(Inner, f) =>
                          Get(Inner, f, JNull) = Get(SrcSummarizer, f, JNull)

\* C7 amended: for a non-empty summarizer object the last element of the
\* array is {"summarizer": inner}, after all web result objects; inner
\* always has type, status and title (null when missing upstream), summary
\* and followups (an empty list when missing upstream), and has enrichments
\* and entities_infos exactly when the source has the key, with the source's
\* value; it has no other key. Without a summarizer, or with an empty one,
\* no summarizer element is appended.
C7_SummarizerAppended ==
    GoodCall =>
        /\ SummarizerPlaced
        /\ HasSummarizer(Last.up.body[1]) =>
              /\ Keys(Inner) \subseteq AlwaysFields \cup OptionalSummFields
              /\ \A f \in {"type", "status", "title"} :
                    HasKey(Inner, f)
                    /\ Get(Inner, f, JNull) = Get(SrcSummarizer, f, JNull)
              /\ \A f \in {"summary", "followups"} :
                    HasKey(Inner, f)
                    /\ Get(Inner, f, JNull)
                          = Get(SrcSummarizer, f, JList(<<>>))
              /\ \A f \in OptionalSummFields :
                    /\ HasKey(Inner, f) <=> HasKey(SrcSummarizer, f)
                    /\ HasKey(Inner, f) =>
                          Get(Inner, f, JNull) = Get(SrcSummarizer, f, JNull)

C7_Witness ==
    /\ GoodCall /\ SrcSummarizer = SummRich /\ Len(Src) = 2
    /\ Returned /\ IsJsonArray(Last.ret[1])
    /\ Len(Out) = 3
    /\ HasKey(Inner, "entities_infos") /\ Get(Inner, "entities_infos", JStr("")) = JNull
    /\ Get(Inner, "type", JStr("")) = JNull
    /\ Get(Inner, "followups", JNull) = JList(<<>>)

\* C8: no call changes the instance, and a call that repeats the previous
\* call's arguments and upstream response returns the previous call's
\* string, whatever calls came before.
C8_Step ==
    /\ self' = self
    /\ (Called /\ call' # <<>> /\ repeated') =>
          /\ call'[1].ret = call[1].ret
          /\ call'[1].raised = call[1].raised
====
